---------------------------- MODULE Spec2Model ----------------------------
(***************************************************************************)
(* A model of the nn crate (src/src/lib.rs): the network, its training     *)
(* configuration builder (Trainer), the incremental and the chunked        *)
(* training loops with their worker pool and read/write lock, network      *)
(* construction and the JSON round trip.                                   *)
(*                                                                         *)
(* f64 values are fixed-point integers: the integer v stands for v/Scale.  *)
(* A product is rounded to that resolution (Mul).  The two infinities and  *)
(* NaN are three integers outside the finite values, and the arithmetic    *)
(* treats them as IEEE 754 does.                                           *)
(***************************************************************************)
EXTENDS Integers, Sequences, FiniteSets, TLC

\* ------------------------------------------------------------------ bounds
MaxEpochs == 2
MaxThreads == 2
MaxExamples == 2
MaxTime == 2
MaxSeed == 1
MaxLayers == 3
MaxCalls == 2
U32Bits == 3

\* ----------------------------------------------------------- f64 and u32
\* the resolution of the fixed-point stand-in for f64
Scale == 1000
\* u32 and `as u32` are modelled at the width U32Bits (TLC's integers are
\* 32-bit signed, so the true width is out of reach)
U32Mod == 2 ^ U32Bits
U32Max == U32Mod - 1

\* f64::INFINITY, f64::NEG_INFINITY and f64::NAN
Inf == Scale * Scale * Scale
NegInf == 0 - Inf
NaN == Inf + 1

IsFinite(x) == x \notin {Inf, NegInf, NaN}

Abs(x) == IF x < 0 THEN -x ELSE x

Sign(x) == IF x < 0 THEN -1 ELSE 1

\* a + b
Add(a, b) ==
    IF a = NaN \/ b = NaN THEN NaN
    ELSE IF ~IsFinite(a) THEN (IF ~IsFinite(b) /\ b # a THEN NaN ELSE a)
    ELSE IF ~IsFinite(b) THEN b
    ELSE a + b

\* -a
Neg(a) == IF a = NaN THEN NaN ELSE 0 - a

\* a - b
Sub(a, b) == Add(a, Neg(b))

\* a * b, a finite product rounded to the nearest multiple of 1/Scale
Mul(a, b) ==
    IF a = NaN \/ b = NaN THEN NaN
    ELSE IF ~IsFinite(a) \/ ~IsFinite(b)
    THEN (IF a = 0 \/ b = 0 THEN NaN ELSE Sign(a) * Sign(b) * Inf)
    ELSE (a * b + Scale \div 2) \div Scale

\* a / n for a count n
DivBy(a, n) == IF IsFinite(a) THEN a \div n ELSE a

\* a <= b, false when either is NaN
Le(a, b) == a # NaN /\ b # NaN /\ a <= b

Min(a, b) == IF a < b THEN a ELSE b

\* the logistic function at 0.0, 1.0, ... 8.0, to the resolution 1/Scale
SigmoidKnots == <<500, 731, 881, 953, 982, 993, 998, 999, 1000>>

\* 1 / (1 + exp(-y)) for y >= 0, interpolated between the knots
SigmoidPos(y) ==
    LET k == y \div Scale
        f == y % Scale
    IN  IF k >= Len(SigmoidKnots) - 1 THEN SigmoidKnots[Len(SigmoidKnots)]
        ELSE SigmoidKnots[k + 1]
             + ((SigmoidKnots[k + 2] - SigmoidKnots[k + 1]) * f) \div Scale

sigmoid(y) ==
    IF y = NaN THEN NaN
    ELSE IF y = Inf THEN Scale
    ELSE IF y = NegInf THEN 0
    ELSE IF y >= 0 THEN SigmoidPos(y) ELSE Scale - SigmoidPos(-y)

RECURSIVE SumSeq(_)
SumSeq(s) ==
    IF s = <<>> THEN 0 ELSE Add(SumSeq(SubSeq(s, 1, Len(s) - 1)), s[Len(s)])

\* node[0] + sum of node[i+1] * values[i] over the zip of the two
modified_dotprod(node, values) ==
    Add(node[1], SumSeq([i \in 1..Min(Len(node) - 1, Len(values)) |->
                            Mul(node[i + 1], values[i])]))

\* sum of (target - result)^2 over the zip, divided by the number of outputs
calculate_error(results, targets) ==
    LET last_results == results[Len(results)]
        total == SumSeq([i \in 1..Min(Len(last_results), Len(targets)) |->
                            Mul(Sub(targets[i], last_results[i]),
                                Sub(targets[i], last_results[i]))])
    IN  DivBy(total, Len(last_results))

\* ----------------------------------------------------------------- NN
RECURSIVE DoRunFrom(_, _)
DoRunFrom(layers, results) ==
    IF Len(results) = Len(layers) + 1 THEN results
    ELSE LET layer == layers[Len(results)]
             prev == results[Len(results)]
         IN  DoRunFrom(layers,
                 Append(results,
                        [n \in 1..Len(layer) |->
                            sigmoid(modified_dotprod(layer[n], prev))]))

\* every layer's results, the inputs first
do_run(layers, inputs) == DoRunFrom(layers, <<inputs>>)

\* the node errors of layer l (1-based), the output layer's from the targets
\* and a hidden layer's from the errors of the layer after it
RECURSIVE NodeErrors(_, _, _, _)
NodeErrors(layers, results, targets, l) ==
    LET layer_results == results[l + 1]
    IN  IF l = Len(layers)
        THEN [n \in 1..Len(layers[l]) |->
                 Mul(Mul(layer_results[n], Sub(Scale, layer_results[n])),
                     Sub(targets[n], layer_results[n]))]
        ELSE LET next_layer_nodes == layers[l + 1]
                 next_layer_errors == NodeErrors(layers, results, targets, l + 1)
             IN  [n \in 1..Len(layers[l]) |->
                     Mul(Mul(layer_results[n], Sub(Scale, layer_results[n])),
                         SumSeq([k \in 1..Len(next_layer_nodes) |->
                                    Mul(next_layer_nodes[k][n + 1],
                                        next_layer_errors[k])]))]

\* node_error * (1 for the threshold weight, else the previous layer's result)
calculate_weight_updates(layers, results, targets) ==
    [l \in 1..Len(layers) |->
        LET errs == NodeErrors(layers, results, targets, l)
        IN  [n \in 1..Len(layers[l]) |->
                [w \in 1..Len(layers[l][n]) |->
                    Mul(errs[n], IF w = 1 THEN Scale ELSE results[l][w - 1])]]]

make_weights_tracker(layers, place_holder) ==
    [l \in 1..Len(layers) |->
        [n \in 1..Len(layers[l]) |->
            [w \in 1..Len(layers[l][n]) |-> place_holder]]]

WeightDeltas(layers, network_weight_updates, prev_deltas, rate, momentum) ==
    [l \in 1..Len(layers) |->
        [n \in 1..Len(layers[l]) |->
            [w \in 1..Len(layers[l][n]) |->
                Add(Mul(rate, network_weight_updates[l][n][w]),
                    Mul(momentum, prev_deltas[l][n][w]))]]]

\* the weights and the previous deltas after one momentum-rule application
update_weights(layers, network_weight_updates, prev_deltas, rate, momentum) ==
    LET delta == WeightDeltas(layers, network_weight_updates, prev_deltas,
                              rate, momentum)
    IN  [layers |-> [l \in 1..Len(layers) |->
                        [n \in 1..Len(layers[l]) |->
                            [w \in 1..Len(layers[l][n]) |->
                                Add(layers[l][n][w], delta[l][n][w])]]],
         prev_deltas |-> delta]

sum_weights_dropped(orig_weights, new_weights) == orig_weights

sum_weights(orig_weights, new_weights) ==
    [l \in 1..Len(orig_weights) |->
        [n \in 1..Len(orig_weights[l]) |->
            [w \in 1..Len(orig_weights[l][n]) |->
                Add(orig_weights[l][n][w], new_weights[l][n][w])]]]

\* ------------------------------------------------------------ NN::new
\* the k-th draw of rng.gen_range(-0.5, 0.5) of the generator seeded `seed`
GenRange(seed, k) == ((seed * 389 + k * 617 + 211) % Scale) - Scale \div 2

\* prev_layer_size + 1 in u32: a debug build panics on overflow, a release
\* build wraps
AddOneU32(x, build) ==
    IF x + 1 < U32Mod THEN [ok |-> TRUE, v |-> x + 1]
    ELSE IF build = "debug" THEN [ok |-> FALSE, v |-> 0]
    ELSE [ok |-> TRUE, v |-> (x + 1) % U32Mod]

\* the number of weights drawn before layer l (1-based among the stored ones)
RECURSIVE DrawsBefore(_, _, _)
DrawsBefore(layers_sizes, l, build) ==
    IF l = 1 THEN 0
    ELSE DrawsBefore(layers_sizes, l - 1, build)
         + layers_sizes[l] * AddOneU32(layers_sizes[l - 1], build).v

NewLayers(layers_sizes, seed, build) ==
    [l \in 1..(Len(layers_sizes) - 1) |->
        [n \in 1..layers_sizes[l + 1] |->
            LET width == AddOneU32(layers_sizes[l], build).v
            IN  [w \in 1..width |->
                    GenRange(seed, DrawsBefore(layers_sizes, l, build)
                                   + (n - 1) * width + (w - 1))]]]

Ok(v) == [ok |-> TRUE, v |-> v]

Panic(msg) == [ok |-> FALSE, msg |-> msg]

NN_new(layers_sizes, seed, build) ==
    IF ~(Len(layers_sizes) >= 2) THEN Panic("must have atleast two layers")
    ELSE IF \E i \in 1..Len(layers_sizes) : layers_sizes[i] = 0
    THEN Panic("can't have any empty layers")
    ELSE IF \E i \in 1..(Len(layers_sizes) - 1) :
                ~AddOneU32(layers_sizes[i], build).ok
    THEN Panic("attempt to add with overflow")
    ELSE Ok([layers |-> NewLayers(layers_sizes, seed, build),
             num_inputs |-> layers_sizes[1]])

\* --------------------------------------------------------------- JSON
\* A JSON text is a sequence of strings: a punctuation mark, a quoted key, or
\* one character of a number.
Digits == <<"0", "1", "2", "3", "4", "5", "6", "7", "8", "9">>

IsDigit(c) == \E d \in 1..10 : Digits[d] = c

DigitVal(c) == (CHOOSE d \in 1..10 : Digits[d] = c) - 1

RECURSIVE NatText(_)
NatText(n) ==
    IF n < 10 THEN <<Digits[n + 1]>>
    ELSE Append(NatText(n \div 10), Digits[(n % 10) + 1])

\* the digits of f/Scale after the point, without trailing zeros
RECURSIVE FracText(_, _)
FracText(f, unit) ==
    IF unit <= 1 \/ f % unit = 0 THEN <<Digits[(f \div unit) + 1]>>
    ELSE <<Digits[(f \div unit) + 1]>> \o FracText(f % unit, unit \div 10)

\* an f64 as the encoder writes it: sign, integer part, point, fraction;
\* JSON has no text for an infinity or NaN, and the encoder writes null
F64Text(v) ==
    IF ~IsFinite(v) THEN <<"null">>
    ELSE (IF v < 0 THEN <<"-">> ELSE <<>>)
         \o NatText(Abs(v) \div Scale) \o <<".">>
         \o FracText(Abs(v) % Scale, Scale \div 10)

RECURSIVE Joined(_)
Joined(texts) ==
    IF texts = <<>> THEN <<>>
    ELSE IF Len(texts) = 1 THEN texts[1]
    ELSE texts[1] \o <<",">> \o Joined(Tail(texts))

ArrayText(texts) == <<"[">> \o Joined(texts) \o <<"]">>

LayersText(layers) ==
    ArrayText([l \in 1..Len(layers) |->
        ArrayText([n \in 1..Len(layers[l]) |->
            ArrayText([w \in 1..Len(layers[l][n]) |->
                F64Text(layers[l][n][w])])])])

\* NN::to_json: the derived encoding of the struct's two fields
to_json(net) ==
    <<"{", "\"layers\"", ":">> \o LayersText(net.layers)
    \o <<",", "\"num_inputs\"", ":">> \o NatText(net.num_inputs) \o <<"}">>

Parsed(v, next) == [ok |-> TRUE, v |-> v, next |-> next]

NoParse == [ok |-> FALSE, v |-> 0, next |-> 0]

At(text, i) == IF i <= Len(text) THEN text[i] ELSE "<eof>"

\* the digits from position i on: their value as an integer
RECURSIVE ParseDigits(_, _, _)
ParseDigits(text, i, acc) ==
    IF IsDigit(At(text, i))
    THEN ParseDigits(text, i + 1, acc * 10 + DigitVal(text[i]))
    ELSE Parsed(acc, i)

\* the digits after the point, each worth a tenth of the one before
RECURSIVE ParseFraction(_, _, _, _)
ParseFraction(text, i, unit, acc) ==
    IF IsDigit(At(text, i))
    THEN ParseFraction(text, i + 1, unit \div 10,
                       acc + DigitVal(text[i]) * (unit \div 10))
    ELSE Parsed(acc, i)

\* an f64: an optional minus, digits, and an optional point and digits; the
\* decoder reads null as NaN
ParseNumber(text, i) ==
    LET neg == At(text, i) = "-"
        j == IF neg THEN i + 1 ELSE i
        int == ParseDigits(text, j, 0)
    IN  IF At(text, i) = "null" THEN Parsed(NaN, i + 1)
        ELSE IF ~IsDigit(At(text, j)) THEN NoParse
        ELSE IF At(text, int.next) # "."
        THEN Parsed((IF neg THEN -1 ELSE 1) * int.v * Scale, int.next)
        ELSE IF ~IsDigit(At(text, int.next + 1)) THEN NoParse
        ELSE LET frac == ParseFraction(text, int.next + 1, Scale, 0)
             IN  Parsed((IF neg THEN -1 ELSE 1) * (int.v * Scale + frac.v),
                        frac.next)

\* an array nested `depth` deep around numbers (depth 0 is a number)
RECURSIVE ParseNested(_, _, _)
RECURSIVE ParseItems(_, _, _, _)
ParseNested(text, i, depth) ==
    IF depth = 0 THEN ParseNumber(text, i)
    ELSE IF At(text, i) # "[" THEN NoParse
    ELSE IF At(text, i + 1) = "]" THEN Parsed(<<>>, i + 2)
    ELSE ParseItems(text, i + 1, depth, <<>>)

ParseItems(text, i, depth, acc) ==
    LET item == ParseNested(text, i, depth - 1)
    IN  IF ~item.ok THEN NoParse
        ELSE IF At(text, item.next) = ","
        THEN ParseItems(text, item.next + 1, depth, Append(acc, item.v))
        ELSE IF At(text, item.next) = "]"
        THEN Parsed(Append(acc, item.v), item.next + 1)
        ELSE NoParse

\* the members of the object from position i on, as a record of what was
\* read for each of the struct's fields
RECURSIVE ParseMembers(_, _, _)
ParseMembers(text, i, got) ==
    LET key == At(text, i)
        value == IF key = "\"layers\"" THEN ParseNested(text, i + 2, 3)
                 ELSE ParseDigits(text, i + 2, 0)
        seen == IF key = "\"layers\""
                THEN [got EXCEPT !.layers = <<value.v>>]
                ELSE [got EXCEPT !.num_inputs = <<value.v>>]
    IN  IF key \notin {"\"layers\"", "\"num_inputs\""} THEN NoParse
        ELSE IF At(text, i + 1) # ":" \/ ~value.ok THEN NoParse
        ELSE IF key = "\"num_inputs\"" /\ ~IsDigit(At(text, i + 2)) THEN NoParse
        ELSE IF At(text, value.next) = ","
        THEN ParseMembers(text, value.next + 1, seen)
        ELSE IF At(text, value.next) = "}" /\ value.next = Len(text)
        THEN Parsed(seen, value.next + 1)
        ELSE NoParse

\* NN::from_json: the derived decoding, which needs both fields
from_json(encoded) ==
    LET members == IF At(encoded, 1) = "{"
                   THEN ParseMembers(encoded, 2, [layers |-> <<>>, num_inputs |-> <<>>])
                   ELSE NoParse
    IN  IF members.ok /\ members.v.layers # <<>> /\ members.v.num_inputs # <<>>
        THEN Ok([layers |-> members.v.layers[1],
                 num_inputs |-> members.v.num_inputs[1]])
        ELSE Panic("decoding JSON failed")

\* ------------------------------------------------- options and defaults
DEFAULT_LEARNING_RATE == 300
DEFAULT_MOMENTUM == 0
DEFAULT_EPOCHS == 1000
DEFAULT_CHUNK_SIZE == 10

Epochs(n) == [kind |-> "Epochs", v |-> n]
MSE(e) == [kind |-> "MSE", v |-> e]
Timer(d) == [kind |-> "Timer", v |-> d]

None == [some |-> FALSE, v |-> 0]
Some(x) == [some |-> TRUE, v |-> x]

VARIABLES
    pc,                   \* where the calling thread is
    nn,                   \* NN: [layers, num_inputs]
    trainer,              \* the Trainer's fields
    prev_deltas, epochs, start_time, training_error_rate,   \* train_* locals
    pos,                  \* the next example of the pass (1-based)
    error_weights,        \* train_chunk: the fold's accumulator
    queue,                \* the chunk's examples no worker has taken yet
    chan,                 \* results sent by workers, not yet folded
    workers,              \* the pool's threads
    lock,                 \* self_lock: who holds read guards, and the writer
    clock,                \* the last reading of PreciseTime::now()
    printed,              \* the error rates printed by the logging
    ret,                  \* the value go() returned, or the panic message
    arg,                  \* the arguments of NN::new / from_json
    hist                  \* history, for stating properties only

trainVars == <<prev_deltas, epochs, start_time, training_error_rate, pos>>
chunkVars == <<error_weights, queue, chan, workers, lock>>
vars == <<pc, nn, trainer, trainVars, chunkVars, clock, printed, ret, arg, hist>>

NoNN == [layers |-> <<>>, num_inputs |-> 0]

\* NN::train
Train(examples) ==
    [examples |-> examples,
     rate |-> DEFAULT_LEARNING_RATE,
     momentum |-> DEFAULT_MOMENTUM,
     log_interval |-> None,
     halt_condition |-> Epochs(DEFAULT_EPOCHS),
     learning_mode |-> "Incremental",
     num_threads |-> 1,
     chunk_size |-> DEFAULT_CHUNK_SIZE]

Hist0 ==
    [layers0 |-> <<>>,    \* the weights when the Trainer was made
     forward |-> 0,       \* forward passes run (do_run calls)
     updates |-> 0,       \* update_weights calls
     passes |-> 0,        \* passes over the examples begun
     ended |-> 0,         \* passes over the examples completed
     errs |-> <<>>,       \* training_error_rate at the end of each pass
     checks |-> <<>>,     \* <<ended, forward>> at each halt evaluation
     reads |-> <<>>,      \* elapsed time at each Timer evaluation
     rejected |-> <<>>,   \* the setter calls that panicked
     calls |-> 0,         \* training calls begun on this network
     encoded |-> NoNN,    \* the network as it was when to_json was called
     folded |-> <<>>,     \* the examples whose results the fold of the chunk
                          \* under way has taken, in the order they arrived
     group_errs |-> <<>>] \* the summed error of each chunk of the pass

Idle == [pc |-> "idle", item |-> 0, results |-> <<>>]

NoLock == [readers |-> {}, writer |-> FALSE]

\* the state once `net.train(&examples)` has returned the Trainer
Configuring(net, examples) ==
    /\ pc = "config"
    /\ nn = net
    /\ trainer = Train(examples)
    /\ prev_deltas = <<>> /\ epochs = 0 /\ start_time = 0
    /\ training_error_rate = 0 /\ pos = 0
    /\ error_weights = [err |-> 0, weights |-> <<>>]
    /\ queue = {} /\ chan = <<>> /\ workers = <<>> /\ lock = NoLock
    /\ clock = 0 /\ printed = <<>> /\ ret = None
    /\ arg = <<>>
    /\ hist = [Hist0 EXCEPT !.layers0 = net.layers]

\* a panic unwinds out of the call: the thread is gone, the message is kept
Panicked(msg) ==
    /\ pc' = "panicked"
    /\ ret' = [some |-> FALSE, v |-> msg]

\* ------------------------------------------------------------- Trainer
SetterFails(name, value) ==
    /\ Panicked(name)
    /\ hist' = [hist EXCEPT !.rejected = Append(@, <<name, value>>)]
    /\ UNCHANGED <<nn, trainer, trainVars, chunkVars, clock, printed, arg>>

SetterStores(field, value) ==
    /\ trainer' = [trainer EXCEPT ![field] = value]
    /\ UNCHANGED <<pc, nn, trainVars, chunkVars, clock, printed, ret, arg, hist>>

rate(value) ==
    /\ pc = "config"
    /\ IF ~(value > 0)
       THEN SetterFails("the learning rate must be a positive number", value)
       ELSE SetterStores("rate", value)

momentum_accepts_zero(value) ==
    /\ pc = "config"
    /\ IF ~(value >= 0)
       THEN SetterFails("momentum must be a positive number", value)
       ELSE SetterStores("momentum", value)

momentum(value) ==
    /\ pc = "config"
    /\ IF ~(value > 0)
       THEN SetterFails("momentum must be a positive number", value)
       ELSE SetterStores("momentum", value)

log_interval(value) ==
    /\ pc = "config"
    /\ IF value.some /\ value.v < 1
       THEN SetterFails("log interval must be Some positive number or None", value)
       ELSE SetterStores("log_interval", value)

halt_condition(value) ==
    /\ pc = "config"
    /\ IF value.kind = "Epochs" /\ ~(value.v > 0)
       THEN SetterFails("must train for at least one epoch", value)
       ELSE IF value.kind = "MSE" /\ ~(value.v > 0)
       THEN SetterFails("MSE must be greater than 0", value)
       ELSE SetterStores("halt_condition", value)

learning_mode(value) ==
    /\ pc = "config"
    /\ SetterStores("learning_mode", value)

num_threads(value) ==
    /\ pc = "config"
    /\ SetterStores("num_threads", value)

chunk_size(value) ==
    /\ pc = "config"
    /\ SetterStores("chunk_size", value)

\* -------------------------------------------------------- train_details
\* inputs.len() as u32
AsU32(n) == n % U32Mod

\* the first complaint of the validation loop over the examples, or "ok"
RECURSIVE CheckExamples(_, _, _)
CheckExamples(net, examples, i) ==
    IF i > Len(examples) THEN "ok"
    ELSE IF AsU32(Len(examples[i][1])) # net.num_inputs
    THEN "input has a different length than the network's input layer"
    ELSE IF Len(examples[i][2]) # Len(net.layers[Len(net.layers)])
    THEN "output has a different length than the network's output layer"
    ELSE CheckExamples(net, examples, i + 1)

\* the locals both training loops start with
LoopEntry ==
    /\ prev_deltas' = make_weights_tracker(nn.layers, 0)
    /\ epochs' = 0
    /\ start_time' = clock
    /\ training_error_rate' = 0
    /\ pos' = 0
    /\ pc' = "loop"
    /\ UNCHANGED <<nn, trainer, clock, printed, ret, arg, hist>>

SingleThreadedOrMore == trainer.num_threads >= 1

\* assert!(num_threads == 1, ...)
SingleThreaded == trainer.num_threads = 1

\* Trainer::go: train_details up to the first iteration of the training loop
go ==
    /\ pc = "config"
    /\ LET complaint == CheckExamples(nn, trainer.examples, 1)
       IN  IF complaint # "ok"
           THEN /\ Panicked(complaint)
                /\ UNCHANGED <<nn, trainer, trainVars, chunkVars, clock,
                               printed, arg, hist>>
           ELSE IF trainer.learning_mode = "Incremental"
           THEN IF ~SingleThreaded
                THEN /\ Panicked("incremental training can only be single-threaded")
                     /\ UNCHANGED <<nn, trainer, trainVars, chunkVars, clock,
                                    printed, arg, hist>>
                ELSE /\ LoopEntry
                     /\ UNCHANGED chunkVars
           ELSE /\ LoopEntry
                /\ workers' = [w \in 1..trainer.num_threads |-> Idle]
                /\ lock' = NoLock
                /\ UNCHANGED <<error_weights, queue, chan>>

\* ------------------------------------------------- the training loops
HaltsOneEpochLate(now) ==
    LET h == trainer.halt_condition
    IN  CASE h.kind = "Epochs" -> epochs = h.v + 1
          [] h.kind = "MSE" -> Le(training_error_rate, h.v)
          [] h.kind = "Timer" -> now - start_time >= h.v

HaltsAboveTarget(now) ==
    LET h == trainer.halt_condition
    IN  CASE h.kind = "Epochs" -> epochs = h.v
          [] h.kind = "MSE" -> Le(h.v, training_error_rate)
          [] h.kind = "Timer" -> now - start_time >= h.v

\* the halt condition, given the reading of the clock (used by Timer only)
Halts(now) ==
    LET h == trainer.halt_condition
    IN  CASE h.kind = "Epochs" -> epochs = h.v
          [] h.kind = "MSE" -> Le(training_error_rate, h.v)
          [] h.kind = "Timer" -> now - start_time >= h.v

Logs ==
    /\ trainer.log_interval.some
    /\ epochs % trainer.log_interval.v = 0

ChecksHaltAtOnce == epochs >= 0

\* the halt condition is looked at only after the first pass: if epochs > 0
ChecksHalt == epochs > 0

\* the top of `loop`: log, evaluate the halt condition, and either return the
\* error rate or reset it and begin the next pass over the examples
LoopTop ==
    /\ pc = "loop"
    /\ IF ChecksHalt
       THEN \E now \in (IF trainer.halt_condition.kind = "Timer"
                        THEN clock..MaxTime ELSE {clock}) :
              /\ clock' = now
              /\ printed' = IF Logs THEN Append(printed, training_error_rate)
                            ELSE printed
              /\ hist' = [hist EXCEPT
                            !.checks = Append(@, <<hist.ended, hist.forward>>),
                            !.passes = IF Halts(now) THEN @ ELSE @ + 1,
                            !.group_errs = IF Halts(now) THEN @ ELSE <<>>,
                            !.reads = IF trainer.halt_condition.kind = "Timer"
                                      THEN Append(@, now - start_time) ELSE @]
              /\ IF Halts(now)
                 THEN /\ pc' = "done"
                      /\ ret' = Some(training_error_rate)
                      /\ UNCHANGED <<training_error_rate, pos>>
                 ELSE /\ epochs < MaxEpochs
                      /\ training_error_rate' = 0
                      /\ pos' = 1
                      /\ pc' = "pass"
                      /\ UNCHANGED ret
       ELSE /\ training_error_rate' = 0
            /\ pos' = 1
            /\ pc' = "pass"
            /\ hist' = [hist EXCEPT !.passes = @ + 1]
            /\ UNCHANGED <<clock, printed, ret>>
    /\ UNCHANGED <<nn, trainer, prev_deltas, epochs, start_time, chunkVars, arg>>

\* train_incremental: one example of the pass
IncrementalExample ==
    /\ pc = "pass"
    /\ trainer.learning_mode = "Incremental"
    /\ pos <= Len(trainer.examples)
    /\ LET inputs == trainer.examples[pos][1]
           targets == trainer.examples[pos][2]
           results == do_run(nn.layers, inputs)
           weight_updates == calculate_weight_updates(nn.layers, results, targets)
           updated == update_weights(nn.layers, weight_updates, prev_deltas,
                                     trainer.rate, trainer.momentum)
       IN  /\ training_error_rate' =
                 Add(training_error_rate, calculate_error(results, targets))
           /\ nn' = [nn EXCEPT !.layers = updated.layers]
           /\ prev_deltas' = updated.prev_deltas
           /\ hist' = [hist EXCEPT !.forward = @ + 1, !.updates = @ + 1]
    /\ pos' = pos + 1
    /\ UNCHANGED <<pc, trainer, epochs, start_time, chunkVars, clock, printed,
                   ret, arg>>

\* the end of the pass, in either mode: epochs += 1
EpochEnd ==
    /\ pc = "pass"
    /\ pos > Len(trainer.examples)
    /\ ~(trainer.learning_mode = "Chunk" /\ trainer.chunk_size = 0)
    /\ epochs' = epochs + 1
    /\ pc' = "loop"
    /\ hist' = [hist EXCEPT !.ended = @ + 1,
                             !.errs = Append(@, training_error_rate)]
    /\ UNCHANGED <<nn, trainer, prev_deltas, start_time, training_error_rate,
                   pos, chunkVars, clock, printed, ret, arg>>

\* the body of train_incremental's loop over the examples from the i-th on,
\* as one value: the weights, the previous deltas, the accumulated error and
\* the number of weight applications
RECURSIVE IncrementalPass(_, _, _, _, _, _, _)
IncrementalPass(layers, deltas, examples, i, rate_, momentum_, acc) ==
    IF i > Len(examples)
    THEN [layers |-> layers, prev_deltas |-> deltas, err |-> acc.err,
          updates |-> acc.updates]
    ELSE LET results == do_run(layers, examples[i][1])
             weight_updates ==
                 calculate_weight_updates(layers, results, examples[i][2])
             updated == update_weights(layers, weight_updates, deltas,
                                       rate_, momentum_)
         IN  IncrementalPass(updated.layers, updated.prev_deltas, examples,
                 i + 1, rate_, momentum_,
                 [err |-> Add(acc.err, calculate_error(results, examples[i][2])),
                  updates |-> acc.updates + 1])

\* ---------------------------------------------------------- train_chunk
Driver == 0

\* examples.chunks(chunk_size) panics on a chunk size of zero
ChunksPanics ==
    /\ pc = "pass"
    /\ trainer.learning_mode = "Chunk"
    /\ trainer.chunk_size = 0
    /\ Panicked("chunk size must be non-zero")
    /\ UNCHANGED <<nn, trainer, trainVars, chunkVars, clock, printed, arg, hist>>

\* the indices of the chunk that starts at example `first`
ChunkOf(first) ==
    first..Min(first + trainer.chunk_size - 1, Len(trainer.examples))

\* the next chunk: pool.unordered_map hands its examples to the pool
ChunkStart ==
    /\ pc = "pass"
    /\ trainer.learning_mode = "Chunk"
    /\ trainer.chunk_size > 0
    /\ pos <= Len(trainer.examples)
    /\ queue' = ChunkOf(pos)
    /\ chan' = <<>>
    /\ pc' = "fold_init"
    /\ UNCHANGED <<nn, trainer, trainVars, error_weights, workers, lock, clock,
                   printed, ret, arg, hist>>

\* a read guard can be taken unless the writer holds the lock
CanRead == ~lock.writer

\* the write guard can be taken once nobody holds the lock
CanWrite == lock.readers = {} /\ ~lock.writer

\* the fold's initial accumulator, built under a read guard of the driver's
\* that lives until the end of the statement
FoldInit ==
    /\ pc = "fold_init"
    /\ CanRead
    /\ lock' = [lock EXCEPT !.readers = @ \cup {Driver}]
    /\ error_weights' = [err |-> 0,
                         weights |-> make_weights_tracker(nn.layers, 0)]
    /\ pc' = "fold"
    /\ UNCHANGED <<nn, trainer, trainVars, queue, chan, workers, clock,
                   printed, ret, arg, hist>>

\* the fold's closure on the next result the iterator yields
FoldResult ==
    /\ pc = "fold"
    /\ chan # <<>>
    /\ error_weights' = [err |-> Add(error_weights.err, Head(chan).err),
                         weights |-> sum_weights(error_weights.weights,
                                                 Head(chan).weights)]
    /\ chan' = Tail(chan)
    /\ hist' = [hist EXCEPT !.folded = Append(@, Head(chan).item)]
    /\ UNCHANGED <<pc, nn, trainer, trainVars, queue, workers, lock, clock,
                   printed, ret, arg>>

ExhaustedOnEmptyChannel == chan = <<>>

ExhaustedEarly ==
    /\ chan = <<>>
    /\ queue = {}

\* the iterator of unordered_map ends once every example of the chunk has
\* been mapped and its result yielded
Exhausted ==
    /\ chan = <<>>
    /\ queue = {}
    /\ \A w \in DOMAIN workers : workers[w].pc = "idle"

FoldEndKeepingGuard ==
    /\ pc = "fold"
    /\ Exhausted
    /\ training_error_rate' = Add(training_error_rate, error_weights.err)
    /\ pc' = "write"
    /\ hist' = [hist EXCEPT !.group_errs = Append(@, error_weights.err)]
    /\ UNCHANGED <<nn, trainer, prev_deltas, epochs, start_time, pos,
                   error_weights, queue, chan, workers, lock, clock, printed,
                   ret, arg>>

\* the end of the fold statement: the driver's read guard is dropped and the
\* chunk's error is added to the epoch's
FoldEnd ==
    /\ pc = "fold"
    /\ Exhausted
    /\ lock' = [lock EXCEPT !.readers = @ \ {Driver}]
    /\ training_error_rate' = Add(training_error_rate, error_weights.err)
    /\ pc' = "write"
    /\ hist' = [hist EXCEPT !.group_errs = Append(@, error_weights.err)]
    /\ UNCHANGED <<nn, trainer, prev_deltas, epochs, start_time, pos,
                   error_weights, queue, chan, workers, clock, printed, ret,
                   arg>>

\* self_lock.write()
WriteLock ==
    /\ pc = "write"
    /\ CanWrite
    /\ lock' = [lock EXCEPT !.writer = TRUE]
    /\ pc' = "writing"
    /\ UNCHANGED <<nn, trainer, trainVars, error_weights, queue, chan, workers,
                   clock, printed, ret, arg, hist>>

\* update_weights under the write guard, which is then dropped
WriteApply ==
    /\ pc = "writing"
    /\ LET updated == update_weights(nn.layers, error_weights.weights,
                                     prev_deltas, trainer.rate, trainer.momentum)
       IN  /\ nn' = [nn EXCEPT !.layers = updated.layers]
           /\ prev_deltas' = updated.prev_deltas
    /\ lock' = [lock EXCEPT !.writer = FALSE]
    /\ pos' = pos + trainer.chunk_size
    /\ pc' = "pass"
    /\ hist' = [hist EXCEPT !.updates = @ + 1, !.folded = <<>>]
    /\ UNCHANGED <<trainer, epochs, start_time, training_error_rate,
                   error_weights, queue, chan, workers, clock, printed, ret, arg>>

\* the smallest element of a non-empty set of numbers
MinOf(S) == CHOOSE x \in S : \A y \in S : x <= y

WorkerTakeLeaving(w) ==
    /\ workers[w].pc = "idle"
    /\ queue # {}
    /\ workers' = [workers EXCEPT ![w] =
                      [pc |-> "want_run", item |-> MinOf(queue), results |-> <<>>]]
    /\ UNCHANGED <<pc, nn, trainer, trainVars, error_weights, queue, chan, lock,
                   clock, printed, ret, arg, hist>>

\* a pool thread takes the next example of the chunk
WorkerTake(w) ==
    /\ workers[w].pc = "idle"
    /\ queue # {}
    /\ workers' = [workers EXCEPT ![w] =
                      [pc |-> "want_run", item |-> MinOf(queue), results |-> <<>>]]
    /\ queue' = queue \ {MinOf(queue)}
    /\ UNCHANGED <<pc, nn, trainer, trainVars, error_weights, chan, lock, clock,
                   printed, ret, arg, hist>>

\* self_lock.read() in the closure, before do_run and before
\* calculate_weight_updates
WorkerRead(w) ==
    /\ workers[w].pc \in {"want_run", "want_calc"}
    /\ CanRead
    /\ lock' = [lock EXCEPT !.readers = @ \cup {w}]
    /\ workers' = [workers EXCEPT ![w].pc =
                      IF @ = "want_run" THEN "run" ELSE "calc"]
    /\ UNCHANGED <<pc, nn, trainer, trainVars, error_weights, queue, chan,
                   clock, printed, ret, arg, hist>>

\* do_run under the read guard, dropped at the end of the statement
WorkerRun(w) ==
    /\ workers[w].pc = "run"
    /\ workers' = [workers EXCEPT
                      ![w].pc = "want_calc",
                      ![w].results = do_run(nn.layers,
                                            trainer.examples[workers[w].item][1])]
    /\ lock' = [lock EXCEPT !.readers = @ \ {w}]
    /\ hist' = [hist EXCEPT !.forward = @ + 1]
    /\ UNCHANGED <<pc, nn, trainer, trainVars, error_weights, queue, chan,
                   clock, printed, ret, arg>>

\* calculate_weight_updates under the read guard; the closure's value goes to
\* the iterator
WorkerCalc(w) ==
    /\ workers[w].pc = "calc"
    /\ LET targets == trainer.examples[workers[w].item][2]
           results == workers[w].results
           weight_updates == calculate_weight_updates(nn.layers, results, targets)
       IN  chan' = Append(chan, [item |-> workers[w].item,
                                 err |-> calculate_error(results, targets),
                                 weights |-> weight_updates])
    /\ lock' = [lock EXCEPT !.readers = @ \ {w}]
    /\ workers' = [workers EXCEPT ![w] = Idle]
    /\ UNCHANGED <<pc, nn, trainer, trainVars, error_weights, queue, clock,
                   printed, ret, arg, hist>>

Worker(w) == WorkerTake(w) \/ WorkerRead(w) \/ WorkerRun(w) \/ WorkerCalc(w)

\* ------------------------------------------------------ the training call
\* sequences over S of length at most n
RECURSIVE SeqsUpTo(_, _)
SeqsUpTo(S, n) ==
    IF n = 0 THEN {<<>>}
    ELSE LET shorter == SeqsUpTo(S, n - 1)
         IN  shorter \cup {Append(s, x) : s \in shorter, x \in S}

\* the networks trained: one input and one output, with and without a
\* hidden layer
TrainShapes == {<<1, 1>>, <<1, 2, 1>>}

Nets == {NN_new(shape, 0, "release").v : shape \in TrainShapes}

\* examples that fit those networks, and two that do not
GoodExamples == {<<<<0>>, <<Scale>>>>, <<<<Scale>>, <<0>>>>}
BadExamples == {<<<<0, Scale>>, <<0>>>>, <<<<0>>, <<0, Scale>>>>}

ExampleSets == SeqsUpTo(GoodExamples, MaxExamples)

\* an error target of 0.3
MseTarget == (3 * Scale) \div 10

HaltInputs ==
    {Epochs(n) : n \in 0..MaxEpochs}
    \cup {MSE(e) : e \in {0, MseTarget}}
    \cup {Timer(d) : d \in 0..MaxTime}

Init == \E net \in Nets, examples \in ExampleSets : Configuring(net, examples)

\* the builder calls, each with an argument from the given set
Setters(momenta, halts, modes, threads, chunks) ==
    \/ \E v \in momenta : momentum(v)
    \/ \E v \in halts : halt_condition(v)
    \/ \E v \in modes : learning_mode(v)
    \/ \E v \in threads : num_threads(v)
    \/ \E v \in chunks : chunk_size(v)

Training ==
    \/ LoopTop
    \/ IncrementalExample
    \/ EpochEnd
    \/ ChunksPanics
    \/ ChunkStart
    \/ FoldInit
    \/ FoldResult
    \/ FoldEnd
    \/ WriteLock
    \/ WriteApply
    \/ \E w \in DOMAIN workers : Worker(w)

\* one training call under every halt condition, in both learning modes, on
\* a pool of at most two threads
Next ==
    \/ Setters({0, DEFAULT_MOMENTUM + Scale \div 10}, HaltInputs,
               {"Incremental", "Chunk"}, {0, 1, 2}, 0..MaxExamples)
    \/ go
    \/ Training

Spec == Init /\ [][Next]_vars

\* one training call for a number of epochs, on a pool of up to MaxThreads
NextChunk ==
    \/ Setters({0}, {Epochs(n) : n \in 0..MaxEpochs},
               {"Incremental", "Chunk"}, 0..MaxThreads, 0..MaxExamples)
    \/ go
    \/ Training

SpecChunk == Init /\ [][NextChunk]_vars

\* --------------------------------------- chunked training, fairly scheduled
FairNets == {NN_new(<<1, 1>>, 0, "release").v}

\* example sets of every length from 1 to MaxExamples
FairExampleSets ==
    {[i \in 1..n |-> <<<<Scale>>, <<0>>>>] : n \in 1..MaxExamples}

\* the state once `net.train(&examples).learning_mode(Chunk)` has returned
InitFair ==
    /\ pc = "config"
    /\ nn \in FairNets
    /\ \E examples \in FairExampleSets :
          trainer = [Train(examples) EXCEPT !.learning_mode = "Chunk"]
    /\ prev_deltas = <<>> /\ epochs = 0 /\ start_time = 0
    /\ training_error_rate = 0 /\ pos = 0
    /\ error_weights = [err |-> 0, weights |-> <<>>]
    /\ queue = {} /\ chan = <<>> /\ workers = <<>> /\ lock = NoLock
    /\ clock = 0 /\ printed = <<>> /\ ret = None
    /\ arg = <<>>
    /\ hist = [Hist0 EXCEPT !.layers0 = nn.layers]

\* one training call as in SpecChunk, on the network without a hidden layer
InitGroups ==
    \E net \in FairNets, examples \in ExampleSets : Configuring(net, examples)

SpecGroups == InitGroups /\ [][NextChunk]_vars

\* the steps of the thread that called go()
DriverStep ==
    \/ LoopTop
    \/ EpochEnd
    \/ ChunkStart
    \/ FoldInit
    \/ FoldResult
    \/ FoldEnd
    \/ WriteLock
    \/ WriteApply

\* the steps of pool thread w
PoolStep(w) == w \in DOMAIN workers /\ Worker(w)

\* the steps of the training call once go() has dispatched it
Running == DriverStep \/ \E w \in 1..MaxThreads : PoolStep(w)

\* a chunked training call of MaxEpochs passes on a pool of at least one
\* thread with a positive chunk size
NextFair ==
    \/ \E v \in 1..MaxThreads : num_threads(v)
    \/ \E v \in 1..MaxExamples : chunk_size(v)
    \/ go
    \/ Running

\* threads that can run are run: while the driver or a pool thread can take
\* a step, one of them eventually does
SpecFair ==
    /\ InitFair
    /\ [][NextFair]_vars
    /\ WF_vars(Running)

\* ----------------------------------------------- the builder up to dispatch
InitBuilder ==
    \E net \in Nets, examples \in SeqsUpTo(GoodExamples, 1) :
        Configuring(net, examples)

RateInputs == {0 - Scale, 0, Scale \div 2}
MomentumInputs == {0 - Scale, 0, Scale \div 10}
LogInputs == {None, Some(0), Some(2)}
BuilderHaltInputs ==
    {Epochs(n) : n \in 0..MaxEpochs}
    \cup {MSE(e) : e \in {0 - Scale, 0, MseTarget}}
    \cup {Timer(d) : d \in -1..0}
ModeInputs == {"Incremental", "Chunk"}

\* the builder calls in any order and number, then go() as far as the
\* training loop's entry
NextBuilder ==
    \/ \E v \in RateInputs : rate(v)
    \/ \E v \in LogInputs : log_interval(v)
    \/ Setters(MomentumInputs, BuilderHaltInputs, ModeInputs, {0, 2}, {0, 1})
    \/ go

SpecBuilder == InitBuilder /\ [][NextBuilder]_vars

\* ------------------------------------------ go() on examples of any shape
\* an example whose input vector is U32Mod elements longer than the input layer
LongInput == <<[i \in 1..(U32Mod + 1) |-> 0], <<Scale>>>>

AnyExampleSets ==
    SeqsUpTo(GoodExamples \cup BadExamples \cup {LongInput}, MaxExamples)

InitGo == \E net \in Nets, examples \in AnyExampleSets : Configuring(net, examples)

\* the learning mode and the thread count are set, then go() is called, as
\* far as the training loop's entry
NextGo ==
    \/ \E v \in ModeInputs : learning_mode(v)
    \/ \E v \in 0..MaxThreads : num_threads(v)
    \/ go

SpecGo == InitGo /\ [][NextGo]_vars

\* ------------------------------------------------------------ construction
SizeInputs == {0, 1, 2, U32Max}

Builds == {"debug", "release"}

InitNew ==
    /\ pc = "new"
    /\ arg \in [layers_sizes : SeqsUpTo(SizeInputs, MaxLayers),
                seed : 0..MaxSeed, build : Builds]
    /\ nn = NoNN
    /\ trainer = Train(<<>>)
    /\ prev_deltas = <<>> /\ epochs = 0 /\ start_time = 0
    /\ training_error_rate = 0 /\ pos = 0
    /\ error_weights = [err |-> 0, weights |-> <<>>]
    /\ queue = {} /\ chan = <<>> /\ workers = <<>> /\ lock = NoLock
    /\ clock = 0 /\ printed = <<>> /\ ret = None
    /\ hist = Hist0

\* NN::new(layers_sizes)
New ==
    /\ pc = "new"
    /\ LET made == NN_new(arg.layers_sizes, arg.seed, arg.build)
       IN  IF made.ok
           THEN /\ nn' = made.v
                /\ pc' = "idle"
                /\ UNCHANGED ret
           ELSE /\ Panicked(made.msg)
                /\ UNCHANGED nn
    /\ UNCHANGED <<trainer, trainVars, chunkVars, clock, printed, arg, hist>>

NextNew == New

SpecNew == InitNew /\ [][NextNew]_vars

\* ------------------------------------- construct, train, encode and decode
\* net.train(&examples): a Trainer with the default options
train(examples) ==
    /\ pc \in {"idle", "done", "decoded"}
    /\ hist.calls < MaxCalls
    /\ pc' = "config"
    /\ trainer' = Train(examples)
    /\ ret' = None
    /\ hist' = [Hist0 EXCEPT !.layers0 = nn.layers, !.calls = hist.calls + 1]
    /\ UNCHANGED <<nn, trainVars, chunkVars, clock, printed, arg>>

\* net.to_json()
ToJson ==
    /\ pc \in {"idle", "done", "decoded"}
    /\ arg' = to_json(nn)
    /\ pc' = "encoded"
    /\ hist' = [hist EXCEPT !.encoded = nn]
    /\ UNCHANGED <<nn, trainer, trainVars, chunkVars, clock, printed, ret>>

\* NN::from_json(&encoded) on the text to_json returned
FromJson ==
    /\ pc = "encoded"
    /\ LET network == from_json(arg)
       IN  IF network.ok
           THEN /\ ret' = Some(network.v)
                /\ pc' = "decoded"
           ELSE Panicked(network.msg)
    /\ UNCHANGED <<nn, trainer, trainVars, chunkVars, clock, printed, arg, hist>>

JsonSizes == {1, 2}

InitJson ==
    /\ pc = "new"
    /\ arg \in [layers_sizes : SeqsUpTo(JsonSizes, MaxLayers),
                seed : 0..MaxSeed, build : {"release"}]
    /\ nn = NoNN
    /\ trainer = Train(<<>>)
    /\ prev_deltas = <<>> /\ epochs = 0 /\ start_time = 0
    /\ training_error_rate = 0 /\ pos = 0
    /\ error_weights = [err |-> 0, weights |-> <<>>]
    /\ queue = {} /\ chan = <<>> /\ workers = <<>> /\ lock = NoLock
    /\ clock = 0 /\ printed = <<>> /\ ret = None
    /\ hist = Hist0

\* one example that fits the network: every input 1.0, every target `target`
JsonExamples(net, target) ==
    <<<<[i \in 1..net.num_inputs |-> Scale],
        [i \in 1..Len(net.layers[Len(net.layers)]) |-> target]>>>>

\* the targets of the training calls: 0.0 and f64::INFINITY
JsonTargets == {0, Inf}

\* a network is constructed, trained up to MaxCalls times for one epoch or
\* for as long as the model runs, and encoded and decoded in between
NextJson ==
    \/ New
    \/ \E target \in JsonTargets : train(JsonExamples(nn, target))
    \/ halt_condition(Epochs(1))
    \/ go
    \/ LoopTop
    \/ IncrementalExample
    \/ EpochEnd
    \/ ToJson
    \/ FromJson

SpecJson == InitJson /\ [][NextJson]_vars

\* ------------------------------------------------------------ properties
InPass == pc \in {"pass", "fold_init", "fold", "write", "writing"}

\* C1: with halt condition Epochs(N) no training call ever begins more than
\* N passes over the examples, and a call that has returned has begun and
\* completed exactly N of them, each over every example.
C1_ExactlyNEpochs ==
    trainer.halt_condition.kind = "Epochs" =>
        LET N == trainer.halt_condition.v
        IN  /\ hist.passes <= N
            /\ hist.forward <= N * Len(trainer.examples)
            /\ pc = "done" =>
                  /\ hist.passes = N
                  /\ hist.ended = N
                  /\ hist.forward = N * Len(trainer.examples)

C1_Witness ==
    /\ pc = "done"
    /\ trainer.halt_condition = Epochs(MaxEpochs)
    /\ trainer.learning_mode = "Chunk"
    /\ trainer.num_threads = 2
    /\ Len(trainer.examples) = MaxExamples

\* C2: the k-th evaluation of the halt condition happens when exactly k
\* passes are complete and k * (number of examples) forward passes have run
\* (so never before one full pass and never inside a pass); a call that has
\* returned has completed at least one pass and only whole passes; with
\* Timer(D) every reading before the one that stopped the call was below D
\* and that one was at least D.
C2_HaltOnlyAtEpochBoundary ==
    /\ \A k \in 1..Len(hist.checks) :
          hist.checks[k] = <<k, k * Len(trainer.examples)>>
    /\ pc = "done" =>
          /\ hist.ended >= 1
          /\ hist.passes = hist.ended
          /\ Len(hist.checks) = hist.ended
          /\ hist.forward = hist.ended * Len(trainer.examples)
    /\ trainer.halt_condition.kind = "Timer" =>
          LET D == trainer.halt_condition.v
              n == Len(hist.reads)
          IN  /\ \A k \in 1..(n - 1) : hist.reads[k] < D
              /\ pc = "done" => n >= 1 /\ hist.reads[n] >= D
              /\ InPass /\ n >= 1 => hist.reads[n] < D

C2_Witness ==
    /\ pc = "done"
    /\ trainer.halt_condition = Timer(0)
    /\ trainer.learning_mode = "Chunk"
    /\ hist.forward = MaxExamples

\* C3: with halt condition MSE(E) every completed pass but the last had an
\* accumulated error above E; while a further pass is under way the last had
\* too; and a call that has returned did so after a pass whose accumulated
\* error is at most E, and returned that error.
C3_StopsAtFirstEpochUnderTarget ==
    trainer.halt_condition.kind = "MSE" =>
        LET E == trainer.halt_condition.v
            n == Len(hist.errs)
        IN  /\ \A k \in 1..(n - 1) : ~Le(hist.errs[k], E)
            /\ InPass /\ n >= 1 => ~Le(hist.errs[n], E)
            /\ pc = "done" =>
                  /\ n >= 1
                  /\ n = hist.ended
                  /\ Le(hist.errs[n], E)
                  /\ ret = Some(hist.errs[n])

C3_Witness ==
    /\ pc = "done"
    /\ trainer.halt_condition.kind = "MSE"
    /\ Len(hist.errs) = 2
    /\ ~Le(hist.errs[1], trainer.halt_condition.v)

\* C4: a Trainer left in incremental mode with a thread count other than 1
\* never trains: go() panics with the single-threaded assertion, no forward
\* pass has run and the weights are those the network had.
C4_IncrementalNeedsOneThread ==
    (trainer.learning_mode = "Incremental" /\ trainer.num_threads # 1) =>
        /\ pc \in {"config", "panicked"}
        /\ hist.forward = 0
        /\ hist.updates = 0
        /\ nn.layers = hist.layers0
        /\ (pc = "panicked" /\ hist.rejected = <<>>) =>
              ret.v = "incremental training can only be single-threaded"

C4_Witness ==
    /\ pc = "panicked"
    /\ hist.rejected = <<>>
    /\ trainer.learning_mode = "Incremental"
    /\ trainer.num_threads = 0
    /\ Len(trainer.examples) = MaxExamples

\* one pass of train_incremental from the weights the Trainer was made with
OneIncrementalEpoch ==
    IncrementalPass(hist.layers0, make_weights_tracker(hist.layers0, 0),
                    trainer.examples, 1, trainer.rate, trainer.momentum,
                    [err |-> 0, updates |-> 0])

DoneAfterOneEpoch == pc = "done" /\ trainer.halt_condition = Epochs(1)

ChunkIsWholeSet ==
    /\ trainer.learning_mode = "Chunk"
    /\ trainer.num_threads = 1
    /\ trainer.chunk_size = Len(trainer.examples)

\* C5 as stated: after one epoch, chunked training with one thread and one
\* chunk holding every example has the error and the weights of one epoch of
\* incremental training, and each has applied one weight update.
C5_Original ==
    DoneAfterOneEpoch =>
        /\ trainer.learning_mode = "Incremental" =>
              /\ nn.layers = OneIncrementalEpoch.layers
              /\ ret = Some(OneIncrementalEpoch.err)
              /\ hist.updates = OneIncrementalEpoch.updates
        /\ ChunkIsWholeSet =>
              /\ nn.layers = OneIncrementalEpoch.layers
              /\ ret = Some(OneIncrementalEpoch.err)
              /\ hist.updates = 1
              /\ OneIncrementalEpoch.updates = 1

\* C5 (amended): the two agree, with one weight update each, when the example
\* set holds exactly one example; incremental training applies one update per
\* example.
C5_EquivalentOnOneExample ==
    DoneAfterOneEpoch =>
        /\ trainer.learning_mode = "Incremental" =>
              /\ nn.layers = OneIncrementalEpoch.layers
              /\ ret = Some(OneIncrementalEpoch.err)
              /\ hist.updates = OneIncrementalEpoch.updates
              /\ hist.updates = Len(trainer.examples)
        /\ (ChunkIsWholeSet /\ Len(trainer.examples) = 1) =>
              /\ nn.layers = OneIncrementalEpoch.layers
              /\ ret = Some(OneIncrementalEpoch.err)
              /\ hist.updates = 1
              /\ OneIncrementalEpoch.updates = 1

C5_Witness ==
    /\ DoneAfterOneEpoch
    /\ ChunkIsWholeSet
    /\ Len(trainer.examples) = 1
    /\ nn.layers # hist.layers0

\* the number of chunks a pass over the examples has
ChunksPerPass ==
    (Len(trainer.examples) + trainer.chunk_size - 1) \div trainer.chunk_size

Busy(w) == workers[w].pc # "idle"

\* C10: while a worker has an example in hand the driver is inside the map
\* and fold of the chunk that example belongs to, the write guard is not
\* held, and the network has received exactly the updates of the chunks
\* before it (those of the earlier passes and of this pass).
C10_ChunksInOrder ==
    \A w \in DOMAIN workers :
        Busy(w) =>
            /\ pc \in {"fold_init", "fold"}
            /\ ~lock.writer
            /\ workers[w].item \in ChunkOf(pos)
            /\ (pos - 1) % trainer.chunk_size = 0
            /\ hist.updates = hist.ended * ChunksPerPass
                              + (pos - 1) \div trainer.chunk_size

C10_Witness ==
    \E w \in DOMAIN workers :
        /\ workers[w].pc = "run"
        /\ trainer.num_threads = MaxThreads
        /\ pos > 1
        /\ hist.ended >= 1

\* whether example e has the shape network net takes
Fits(net, e) ==
    /\ Len(e[1]) = net.num_inputs
    /\ Len(e[2]) = Len(net.layers[Len(net.layers)])

ShapeComplaints ==
    {"input has a different length than the network's input layer",
     "output has a different length than the network's output layer"}

\* C6 as stated: once go() has been called, it has panicked over an example's
\* shape exactly when some example does not fit the network, and then the
\* weights are untouched; when every example fits, training was dispatched.
C6_Claim ==
    (pc # "config" /\ hist.rejected = <<>>) =>
        /\ (\E i \in 1..Len(trainer.examples) : ~Fits(nn, trainer.examples[i]))
              <=> (pc = "panicked" /\ ret.v \in ShapeComplaints)
        /\ pc = "panicked" => nn.layers = hist.layers0

SetterContract(step, valid, field, value) ==
    step => IF valid
            THEN /\ pc' = "config"
                 /\ trainer' = [trainer EXCEPT ![field] = value]
            ELSE /\ pc' = "panicked"
                 /\ trainer' = trainer

\* C7: a builder call with a value its check rejects (rate <= 0, momentum <= 0,
\* Some(0), Epochs(0), MSE(e <= 0)) panics and leaves every field as it was;
\* with any other value it stores that value in its field and changes nothing
\* else; Timer is never rejected; and go() trains with the stored fields, so a
\* Trainer whose momentum was never set trains with the default 0.
C7_BuilderValidation ==
    [][/\ \A v \in RateInputs : SetterContract(rate(v), v > 0, "rate", v)
       /\ \A v \in MomentumInputs :
             SetterContract(momentum(v), v > 0, "momentum", v)
       /\ \A v \in LogInputs :
             SetterContract(log_interval(v), ~(v.some /\ v.v = 0),
                            "log_interval", v)
       /\ \A v \in BuilderHaltInputs :
             SetterContract(halt_condition(v),
                            \/ v.kind = "Timer"
                            \/ v.kind = "Epochs" /\ v.v # 0
                            \/ v.kind = "MSE" /\ v.v > 0,
                            "halt_condition", v)
       /\ go => trainer' = trainer
      ]_vars

C7_Witness ==
    /\ pc = "panicked"
    /\ hist.rejected = <<<<"momentum must be a positive number", 0>>>>
    /\ trainer.momentum = DEFAULT_MOMENTUM
    /\ trainer.rate = Scale \div 2
    /\ trainer.halt_condition = Timer(-1)
    /\ trainer.log_interval = Some(2)

\* C8 as stated: construction succeeds exactly when the sizes are at least two
\* and none is zero, and then there is one stored layer per size after the
\* first, layer i has sizes[i+1] nodes of sizes[i] + 1 weights each, and the
\* input-layer size is the first size.
C8_Claim ==
    pc # "new" =>
        LET sizes == arg.layers_sizes
            valid == Len(sizes) >= 2 /\ \A i \in 1..Len(sizes) : sizes[i] # 0
        IN  /\ pc = "idle" <=> valid
            /\ pc = "idle" =>
                  /\ Len(nn.layers) = Len(sizes) - 1
                  /\ nn.num_inputs = sizes[1]
                  /\ \A l \in 1..Len(nn.layers) :
                        /\ Len(nn.layers[l]) = sizes[l + 1]
                        /\ \A n \in 1..Len(nn.layers[l]) :
                              Len(nn.layers[l][n]) = sizes[l] + 1
\* C9: the network decoded from a network's encoding has the same layers,
\* nodes and weights, with the same values, and the same input-layer size as
\* the network that was encoded, which encoding left as it was.
C9_Claim ==
    /\ pc \in {"encoded", "decoded"} => nn = hist.encoded
    /\ pc = "encoded" => from_json(arg).ok
    /\ pc = "decoded" =>
          /\ ret.v.layers = nn.layers
          /\ ret.v.num_inputs = nn.num_inputs

\* what the closure yields for example i when it reads the weights `layers`
\* in both of its steps
ClosureValue(layers, i) ==
    LET results == do_run(layers, trainer.examples[i][1])
        targets == trainer.examples[i][2]
    IN  [item |-> i,
         err |-> calculate_error(results, targets),
         weights |-> calculate_weight_updates(layers, results, targets)]

\* every forward pass and every result of the chunk under way was computed
\* from the weights the network has now
ChunkSawTheseWeights ==
    /\ \A w \in DOMAIN workers :
          /\ workers[w].pc \in {"run", "calc"} =>
                w \in lock.readers /\ ~lock.writer
          /\ workers[w].pc \in {"want_calc", "calc"} =>
                workers[w].results =
                    do_run(nn.layers, trainer.examples[workers[w].item][1])
    /\ \A k \in 1..Len(chan) : chan[k] = ClosureValue(nn.layers, chan[k].item)

\* a step of chunked training that changes a weight is the driver's, under
\* the write guard, with no reader, no example waiting, no worker in the
\* closure and no result uncollected, and it applies the whole update
WritesOnlyAfterTheChunk ==
    (trainer.learning_mode = "Chunk" /\ nn' # nn) =>
        /\ pc = "writing"
        /\ lock.writer /\ lock.readers = {}
        /\ queue = {} /\ chan = <<>>
        /\ \A w \in DOMAIN workers : workers[w].pc = "idle"
        /\ nn'.layers = update_weights(nn.layers, error_weights.weights,
                                       prev_deltas, trainer.rate,
                                       trainer.momentum).layers
        /\ ~lock'.writer

\* C11: in chunked training the weights change only in the driver's write
\* step, taken after every example of the chunk has been processed and every
\* result collected and while no read guard is held; so each forward pass
\* and backpropagation step of a chunk reads the same weights, and an update
\* is applied whole before anything reads again.
C11_NoWriteWhileReading ==
    /\ [](trainer.learning_mode = "Chunk" => ChunkSawTheseWeights)
    /\ [][WritesOnlyAfterTheChunk]_vars

C11_Witness ==
    /\ pc = "writing"
    /\ trainer.num_threads = MaxThreads
    /\ trainer.chunk_size = MaxExamples
    /\ Len(trainer.examples) = MaxExamples
    /\ hist.ended >= 1

\* the fold of the closure values of the examples `items`, in that order,
\* onto the accumulator acc
RECURSIVE FoldOf(_, _)
FoldOf(items, acc) ==
    IF items = <<>> THEN acc
    ELSE LET value == ClosureValue(nn.layers, Head(items))
         IN  FoldOf(Tail(items),
                    [err |-> Add(acc.err, value.err),
                     weights |-> sum_weights(acc.weights, value.weights)])

\* the examples of the chunk under way that are still to be taken, in a
\* worker's hands, yielded but not yet folded, and folded: how many in all
ChunkItemCount ==
    Cardinality(queue)
    + Cardinality({w \in DOMAIN workers : Busy(w)})
    + Len(chan) + Len(hist.folded)

ChunkItems ==
    queue
    \cup {workers[w].item : w \in {v \in DOMAIN workers : Busy(v)}}
    \cup {chan[k].item : k \in 1..Len(chan)}
    \cup {hist.folded[k] : k \in 1..Len(hist.folded)}

\* C12: in chunked training with a positive chunk size c the chunks of a
\* pass start at examples 1, c+1, 2c+1, ... and each holds the next c
\* examples (the last one those that remain); each example of a chunk is in
\* exactly one place on its way into that chunk's sums, which are the sums
\* of the closure values of the examples in whatever order they arrived; one
\* momentum-rule update is applied per chunk, ceil(n/c) per pass; and the
\* pass's error is the sum of its chunks' errors.
C12_GroupsAndUpdates ==
    (trainer.learning_mode = "Chunk" /\ trainer.chunk_size > 0) =>
        LET c == trainer.chunk_size
            n == Len(trainer.examples)
            closing == IF pc \in {"write", "writing"} THEN 1 ELSE 0
        IN  /\ InPass =>
                  /\ (pos - 1) % c = 0
                  /\ Len(hist.group_errs) = (pos - 1) \div c + closing
                  /\ hist.updates = hist.ended * ChunksPerPass + (pos - 1) \div c
                  /\ training_error_rate = SumSeq(hist.group_errs)
            /\ pc \in {"fold_init", "fold", "write", "writing"} =>
                  /\ pos <= n
                  /\ ChunkOf(pos) = pos..Min(pos + c - 1, n)
                  /\ ChunkItems = ChunkOf(pos)
                  /\ ChunkItemCount = Cardinality(ChunkOf(pos))
            /\ pc \in {"fold", "write", "writing"} =>
                  error_weights =
                      FoldOf(hist.folded,
                             [err |-> 0,
                              weights |-> make_weights_tracker(nn.layers, 0)])
            /\ pc \in {"write", "writing"} =>
                  Len(hist.folded) = Cardinality(ChunkOf(pos))
            /\ (pc \in {"loop", "done"} /\ hist.ended >= 1) =>
                  /\ Len(hist.group_errs) = ChunksPerPass
                  /\ ChunksPerPass * c >= n /\ (ChunksPerPass - 1) * c < n
                  /\ hist.updates = hist.ended * ChunksPerPass
                  /\ training_error_rate = SumSeq(hist.group_errs)

C12_Witness ==
    /\ pc = "writing"
    /\ trainer.learning_mode = "Chunk"
    /\ Len(hist.folded) = MaxExamples
    /\ hist.folded[1] > hist.folded[2]
    /\ hist.ended >= 1

\* the lock as the driver and the readers meet it
LockIsFree ==
    /\ ~(lock.writer /\ lock.readers # {})
    /\ pc = "write" =>
          /\ lock.readers = {}
          /\ ~lock.writer
          /\ \A w \in DOMAIN workers : workers[w].pc = "idle"
          /\ queue = {}
    /\ lock.writer =>
          /\ pc = "writing"
          /\ \A w \in DOMAIN workers : workers[w].pc = "idle"
    /\ pc = "fold_init" => ~lock.writer
    /\ \A w \in DOMAIN workers :
          workers[w].pc \in {"want_run", "want_calc"} => ~lock.writer

ChunkUnderWay ==
    /\ trainer.learning_mode = "Chunk"
    /\ pc \in {"fold_init", "fold", "write", "writing"}

\* C13: when the driver asks for the write guard no read guard is held (the
\* workers' and its own have been dropped) and no worker is in the closure;
\* nobody asks for a read guard while the write guard is held; so, with the
\* driver and every pool thread scheduled, the update of each chunk under
\* way is applied and each pass under way comes to its end.
C13_DeadlockFree ==
    /\ []LockIsFree
    /\ ChunkUnderWay ~> (pc = "pass")
    /\ (trainer.learning_mode = "Chunk" /\ InPass) ~> (pc = "loop")

C13_Witness ==
    /\ pc = "write"
    /\ trainer.num_threads = MaxThreads
    /\ trainer.chunk_size = 1
    /\ pos > 1
    /\ hist.ended >= 1

=============================================================================
